---- MODULE Spec2Model ----
(***************************************************************************)
(* Model of the changesets release action: the entry controller, the       *)
(* version orchestrator (runVersion), the publish orchestrator             *)
(* (runPublish), the release creator (createRelease), the proposal body    *)
(* composer (getVersionPrBody), the release orchestrator (runRelease) and  *)
(* the rate-limit handlers of the primary backend's client (setupOctokit). *)
(*                                                                         *)
(* Strings are TLA+ strings; Len counts UTF-16 code units as the           *)
(* JavaScript .length does.  Two characters of the source texts cannot be  *)
(* written in a TLA+ string: the backtick is written as ' and each of the  *)
(* two code units of the warning sign (U+26A0 U+FE0F) is written as !.     *)
(* Both replacements keep every length.                                    *)
(***************************************************************************)
EXTENDS Integers, Sequences, FiniteSets, TLC

VARIABLES
    pc,               \* where the invocation stands
    env,              \* token, alternate-host URL, pending changesets, inputs
    outputs,          \* core.setOutput values and the core.setFailed message
    invoked,          \* orchestrators called by this invocation, in order
    log,              \* VCS, tool and host API operations of the run, in order
    prs,              \* open pull requests of the repository on the host
    createdReleases,  \* release records the host holds, in creation order
    ver,              \* runVersion's frame
    pub,              \* runPublish's frame
    tasks,            \* the createRelease calls in flight or finished
    runs,             \* runVersion runs started so far
    bodyPc,     \* getVersionPrBody: "call" before the call, "returned" after
    bodyIn,     \* getVersionPrBody: the GetMessageOptions of the call
    bodyOut,    \* getVersionPrBody: the returned fullMessage
    rel,              \* runRelease's frame
    throttle          \* one call of the primary backend's client

-----------------------------------------------------------------------------
(* Bounds *)

MaxInfos == 2       \* longest changedPackagesInfo list handed to the composer
MaxLines == 2       \* most lines the publish tool prints
MaxChangesets == 2  \* most pending changesets
MaxRuns == 3        \* most consecutive runVersion runs
MaxReleaseRuns == 3 \* most consecutive runRelease runs

-----------------------------------------------------------------------------
(* Strings *)

\* Array.prototype.join(sep) on an array of strings
RECURSIVE join(_, _)
join(arr, sep) ==
    IF Len(arr) = 0 THEN ""
    ELSE IF Len(arr) = 1 THEN arr[1]
    ELSE arr[1] \o sep \o join(Tail(arr), sep)

\* String.prototype.charAt, 1-based; "" past the end
charAt(s, i) == IF i >= 1 /\ i <= Len(s) THEN SubSeq(s, i, i) ELSE ""

\* String.prototype.indexOf(c, from), 1-based; 0 when c does not occur
indexOf(s, c, from) ==
    LET hits == {i \in from..Len(s) : charAt(s, i) = c}
    IN  IF hits = {} THEN 0 ELSE CHOOSE i \in hits : \A j \in hits : i <= j

\* String.prototype.split("\n")
RECURSIVE split(_)
split(s) ==
    LET nl == indexOf(s, "\n", 1)
    IN  IF nl = 0 THEN <<s>>
        ELSE <<SubSeq(s, 1, nl - 1)>> \o split(SubSeq(s, nl + 1, Len(s)))

Max(S) == CHOOSE x \in S : \A y \in S : y <= x
Min(S) == CHOOSE x \in S : \A y \in S : x <= y

-----------------------------------------------------------------------------
(* The two regular expressions of runPublish *)

\* \s of a JavaScript regular expression, restricted to the characters a
\* TLA+ string can hold
Whitespace == {" ", "\t", "\r", "\n"}

NoMatch == [matched |-> FALSE, pkgName |-> ""]
Matched(name) == [matched |-> TRUE, pkgName |-> name]

isSpace(c) == c \in Whitespace
notSpace(c) == c # "" /\ c \notin Whitespace

\* the index of the first c at or after from, Len(s) + 1 when there is none
firstOf(s, c, from) ==
    IF indexOf(s, c, from) = 0 THEN Len(s) + 1 ELSE indexOf(s, c, from)

\* first alternative of group 1 tried at index g:  @[^/]+\/[^@]+  then @[^\s]+
\* Each + is followed by the one character it excludes, so it extends to the
\* first such character and no other extent can match.
scopedNameAt(s, g) ==
    LET slash == firstOf(s, "/", g + 1)
        at == firstOf(s, "@", slash + 1)
    IN  IF /\ charAt(s, g) = "@"
           /\ slash > g + 1 /\ slash <= Len(s)
           /\ at > slash + 1 /\ at <= Len(s)
           /\ notSpace(charAt(s, at + 1))
        THEN Matched(SubSeq(s, g, at - 1))
        ELSE NoMatch

\* second alternative of group 1 tried at index g:  [^/]+  then @[^\s]+
\* The + is greedy: the name ends before the last @ that is followed by a
\* version and is not after a /.
plainNameAt(s, g) ==
    LET slash == firstOf(s, "/", g)
        ns == {n \in 1..(slash - g) : /\ charAt(s, g + n) = "@"
                                       /\ notSpace(charAt(s, g + n + 1))}
    IN  IF ns = {} THEN NoMatch ELSE Matched(SubSeq(s, g, g + Max(ns) - 1))

groupAt(s, g) ==
    IF scopedNameAt(s, g).matched THEN scopedNameAt(s, g) ELSE plainNameAt(s, g)

\* the number of whitespace characters from index i on
RECURSIVE spaces(_, _)
spaces(s, i) == IF isSpace(charAt(s, i)) THEN 1 + spaces(s, i + 1) ELSE 0

\* /New tag:\s+(@[^/]+\/[^@]+|[^/]+)@([^\s]+)/ tried at index p: \s+ takes
\* the most whitespace that lets the rest match
newTagAt(s, p) ==
    LET ks == {k \in 1..spaces(s, p + 8) : groupAt(s, p + 8 + k).matched}
    IN  IF SubSeq(s, p, p + 7) # "New tag:" \/ ks = {} THEN NoMatch
        ELSE groupAt(s, p + 8 + Max(ks))

\* line.match(newTagRegex) of the multi-package branch: group 1 of the
\* leftmost match
matchNewTag(line) ==
    LET ps == {p \in 1..(Len(line) - 7) : newTagAt(line, p).matched}
    IN  IF ps = {} THEN NoMatch ELSE newTagAt(line, Min(ps))

\* line.match(/New tag:/) of the single-package branch
matchMarker(line) ==
    \E p \in 1..(Len(line) - 7) : SubSeq(line, p, p + 7) = "New tag:"

-----------------------------------------------------------------------------
(* getVersionPrBody *)

MAX_CHARACTERS_PER_MESSAGE == 60000

messageHeader(hasPublishScript, branch) ==
    "This PR was opened by the [Changesets release](https://github.com/changesets/action) GitHub action. When you're ready to do a release, you can merge this and "
    \o (IF hasPublishScript
        THEN "the packages will be published to npm automatically"
        ELSE "publish to npm yourself or [setup this action to publish automatically](https://github.com/changesets/action#with-publishing)")
    \o ". If you're not ready to do a release yet, that's fine, whenever you add more changesets to "
    \o branch
    \o ", this PR will be updated.\n"

messagePrestate(preState, branch) ==
    IF preState # "none"
    THEN "!!!!!!!!!!!!\n\n'" \o branch
         \o "' is currently in **pre mode** so this branch has prereleases rather than normal releases. If you want to exit prereleases, run 'changeset pre exit' on '"
         \o branch \o "'.\n\n!!!!!!!!!!!!\n"
    ELSE ""

messageReleasesHeading == "# Releases"

changelogOmittedNotice ==
    "\n> The changelog information of each package has been omitted from this message, as the content exceeds the size limit.\n"

allOmittedNotice ==
    "\n> All release information have been omitted from this message, as the content exceeds the size limit."

headerAndContent(info) == info.header \o "\n\n" \o info.content
headerOnly(info) == info.header \o "\n\n"

\* the message of lines 280-285: headers and contents
fullMessageStep0(o) ==
    join(<<messageHeader(o.hasPublishScript, o.branch),
           messagePrestate(o.preState, o.branch),
           messageReleasesHeading>>
         \o [k \in 1..Len(o.changedPackagesInfo) |-> headerAndContent(o.changedPackagesInfo[k])], "\n")

\* faulty variant of fullMessageStep1: the headers lose their blank line
fullMessageStep1BareHeaders(o) ==
    join(<<messageHeader(o.hasPublishScript, o.branch),
           messagePrestate(o.preState, o.branch),
           messageReleasesHeading,
           changelogOmittedNotice>>
         \o [k \in 1..Len(o.changedPackagesInfo) |-> o.changedPackagesInfo[k].header], "\n")

\* the message of lines 290-296: headers only
fullMessageStep1(o) ==
    join(<<messageHeader(o.hasPublishScript, o.branch),
           messagePrestate(o.preState, o.branch),
           messageReleasesHeading,
           changelogOmittedNotice>>
         \o [k \in 1..Len(o.changedPackagesInfo) |-> headerOnly(o.changedPackagesInfo[k])], "\n")

\* the message of lines 302-307: no release information
fullMessageStep2(o) ==
    join(<<messageHeader(o.hasPublishScript, o.branch),
           messagePrestate(o.preState, o.branch),
           messageReleasesHeading,
           allOmittedNotice>>, "\n")

afterFirstCheck(o) ==
    IF Len(fullMessageStep0(o)) > o.prBodyMaxCharacters
    THEN fullMessageStep1(o)
    ELSE fullMessageStep0(o)

\* faulty variant of afterSecondCheck: the second check is missing
afterSecondCheckMissing(o, fullMessage) == fullMessage

afterSecondCheck(o, fullMessage) ==
    IF Len(fullMessage) > o.prBodyMaxCharacters
    THEN fullMessageStep2(o)
    ELSE fullMessage

getVersionPrBody(o) == afterSecondCheck(o, afterFirstCheck(o))

-----------------------------------------------------------------------------
(* Inputs of the composer *)

SeqsUpTo(S, n) == UNION {[1..k -> S] : k \in 0..n}

Branches == {"main"}
PreStates == {"none", "beta"}    \* no pre.json, or pre mode with tag "beta"

\* changelog sections as getChangelogEntry hands them to runVersion
longContent ==
    "### Minor Changes\n\n- 1a2b: Add the retry option to the client and describe the new default in the readme of this package\n"
shortContent == "### Patch Changes\n\n- Fix typo\n"

InfoPool ==
    { [highestLevel |-> 2, private |-> FALSE, content |-> longContent,
       header |-> "## pkg-a@1.3.0"],
      [highestLevel |-> 1, private |-> FALSE, content |-> shortContent,
       header |-> "## @scope/pkg-b@0.0.2"],
      [highestLevel |-> 0, private |-> TRUE, content |-> "",
       header |-> "## pkg-c@2.0.1"] }

MaxCharactersPool == {0, 450, 500, MAX_CHARACTERS_PER_MESSAGE}

GetMessageOptions ==
    [hasPublishScript : BOOLEAN,
     branch : Branches,
     changedPackagesInfo : SeqsUpTo(InfoPool, MaxInfos),
     prBodyMaxCharacters : MaxCharactersPool,
     preState : PreStates]

-----------------------------------------------------------------------------
(* Packages, changelog files and workspaces *)

\* <dir>/CHANGELOG.md: readError is the code fs.readFile fails with ("" when
\* the file is read), sections are the version sections of the file
Changelog(readError, sections) == [readError |-> readError, sections |-> sections]
Section(version, level, content) ==
    [version |-> version, highestLevel |-> level, content |-> content]

Package(name, version, private, changelog) ==
    [name |-> name, version |-> version, private |-> private,
     changelog |-> changelog]

NoEntry == [found |-> FALSE, highestLevel |-> 0, content |-> ""]

\* the section of the changelog whose heading is the version, if any
getChangelogEntry(changelog, version) ==
    LET hits == {i \in 1..Len(changelog.sections) :
                    changelog.sections[i].version = version}
    IN  IF hits = {} THEN NoEntry
        ELSE [found |-> TRUE,
              highestLevel |-> changelog.sections[Min(hits)].highestLevel,
              content |-> changelog.sections[Min(hits)].content]

pkgA(changelog) == Package("pkg-a", "1.2.3", FALSE, changelog)
pkgB(changelog) == Package("@scope/pkg-b", "0.0.1-beta.0", FALSE, changelog)
pkgRoot(changelog) == Package("my-app", "1.0.0", FALSE, changelog)

WithEntry(version) ==
    Changelog("", <<Section(version, 1, shortContent),
                    Section("0.0.0", 2, longContent)>>)
WithoutEntry == Changelog("", <<Section("0.0.0", 2, longContent)>>)
Missing == Changelog("ENOENT", <<>>)
Unreadable == Changelog("EACCES", <<>>)

\* what getPackages(cwd) finds: the workspace tool and the packages
Workspaces ==
    { [tool |-> "pnpm", packages |-> <<pkgA(WithEntry("1.2.3")), pkgB(Missing)>>],
      [tool |-> "yarn", packages |-> <<pkgA(Unreadable), pkgB(WithoutEntry)>>],
      [tool |-> "yarn", packages |-> <<pkgA(Missing), pkgB(WithEntry("0.0.1-beta.0"))>>],
      [tool |-> "root", packages |-> <<pkgRoot(WithEntry("1.0.0"))>>],
      [tool |-> "root", packages |-> <<pkgRoot(Missing)>>],
      [tool |-> "root", packages |-> <<>>] }

\* new Map(packages.map((x) => [x.packageJson.name, x])).get(name): the last
\* package of that name
hasPackage(packages, name) == \E i \in 1..Len(packages) : packages[i].name = name
packageByName(packages, name) ==
    packages[Max({i \in 1..Len(packages) : packages[i].name = name})]

-----------------------------------------------------------------------------
(* The publish tool's output *)

\* a line of the publish tool: its text, and the package it announces as
\* tagged ("" when the line announces none)
Line(text, announces) == [text |-> text, announces |-> announces]
TagLine(name, version) == Line("New tag: " \o name \o "@" \o version, name)

LinePool ==
    { TagLine("pkg-a", "1.2.3"),
      TagLine("@scope/pkg-b", "0.0.1-beta.0"),
      TagLine("unknown-pkg", "1.0.0"),
      Line("info New tag:  pkg-a@1.2.3", "pkg-a"),
      Line("success packages published successfully: pkg-a@1.2.3", ""),
      Line("New tag: v1.0.0 created", "") }

text(line) == line.text

-----------------------------------------------------------------------------
(* Errors and the catch clause of createRelease *)

\* a thrown value: whether it has a code property, and the code
Err(kind, hasCode, code) == [kind |-> kind, hasCode |-> hasCode, code |-> code]
NoError == Err("", FALSE, "")

\* faulty variant of catchRethrows: every error that has a code is rethrown
catchRethrowsEveryCode(err) == err.hasCode

\* lines 107-114: the catch rethrows iff the error has a code other than ENOENT
catchRethrows(err) == err.hasCode /\ err.code # "ENOENT"

-----------------------------------------------------------------------------
(* Frames *)

Truthy(v) == v # "false"

\* extractCreateGithubReleases of the entry controller
extractCreateGithubReleases(input) ==
    IF input = "aggregate" THEN "aggregate"
    ELSE IF input = "true" THEN "true"
    ELSE "false"

NoResult == [returned |-> FALSE, published |-> FALSE, publishedPackages |-> <<>>]

IdlePub ==
    [createGithubReleases |-> "false", lines |-> <<>>, stdout |-> "",
     tool |-> "", packages |-> <<>>, scanned |-> 0,
     releasedPackages |-> <<>>, result |-> NoResult]

\* runRelease's frame: listing holds the tag names of the answer to the
\* release listing once listed
IdleRel ==
    [script |-> "", createGithubReleases |-> FALSE, tool |-> "",
     packages |-> <<>>, releasablePackages |-> <<>>, listed |-> FALSE,
     listing |-> <<>>, releasedPackages |-> <<>>,
     result |-> [returned |-> FALSE, released |-> FALSE,
                 releasedPackages |-> <<>>]]

\* a call of the primary backend's client: the rate-limit answers received
\* for it, the retry count the throttling plugin keeps for it, the requests
\* sent for it and the warnings its handlers logged
IdleThrottle ==
    [st |-> "idle", retryCount |-> 0, sent |-> 0, answers |-> <<>>,
     warnings |-> 0]

Task(pkg, tagName) ==
    [pkg |-> pkg, tagName |-> tagName, st |-> "readFile", err |-> NoError,
     requested |-> FALSE]

-----------------------------------------------------------------------------
(* State shared by the actions *)

bodyVars == <<bodyPc, bodyIn, bodyOut>>
vars == <<pc, env, outputs, invoked, log, prs, createdReleases, ver, pub,
          tasks, runs, bodyPc, bodyIn, bodyOut, rel, throttle>>

\* a throw that unwinds to the caller: the entry controller's catch reports
\* err.message with core.setFailed
Fail(message) ==
    /\ pc' = "failed"
    /\ outputs' = [outputs EXCEPT !.failed = message]

includes(s, c) == \E i \in 1..Len(s) : charAt(s, i) = c

-----------------------------------------------------------------------------
(* createRelease *)

\* lines 66-77 and the catch: the changelog is read and the entry looked up;
\* with an entry, the create-release request of lines 79-104 is issued
CreateReleaseRead(i) ==
    /\ i \in 1..Len(tasks)
    /\ tasks[i].st = "readFile"
    /\ LET pkg == tasks[i].pkg
           entry == getChangelogEntry(pkg.changelog, pkg.version)
           err == IF pkg.changelog.readError # ""
                  THEN Err("readFile", TRUE, pkg.changelog.readError)
                  ELSE IF ~entry.found
                  THEN Err("Could not find changelog entry", FALSE, "")
                  ELSE NoError
       IN  IF err # NoError
           THEN /\ tasks' = [tasks EXCEPT ![i].err = err,
                                          ![i].st = IF catchRethrows(err)
                                                    THEN "rejected"
                                                    ELSE "resolved"]
                /\ UNCHANGED log
           ELSE /\ tasks' = [tasks EXCEPT ![i].st = "request",
                                          ![i].requested = TRUE]
                /\ log' = Append(log, "createRelease")
    /\ UNCHANGED <<pc, env, outputs, invoked, prs, createdReleases, ver, pub,
                   runs, bodyVars, rel, throttle>>

\* the host answers the create-release request: the release exists, or the
\* request fails.  The alternate backend's failure is new Error(status ...),
\* which has no code; the primary backend's client throws its request error,
\* which carries a code in some versions of the client and none in others.
CreateReleaseRespond(i) ==
    /\ i \in 1..Len(tasks)
    /\ tasks[i].st = "request"
    /\ \/ /\ createdReleases' = Append(createdReleases,
                [name |-> tasks[i].tagName,
                 tag_name |-> tasks[i].tagName,
                 body |-> getChangelogEntry(tasks[i].pkg.changelog,
                                            tasks[i].pkg.version).content,
                 prerelease |-> includes(tasks[i].pkg.version, "-")])
          /\ tasks' = [tasks EXCEPT ![i].st = "resolved"]
       \/ /\ \E err \in IF env.gitea
                        THEN {Err("500 Internal Server Error", FALSE, "")}
                        ELSE {Err("HttpError", TRUE, "500"),
                              Err("HttpError", FALSE, "")} :
                tasks' = [tasks EXCEPT ![i].err = err,
                                       ![i].st = IF catchRethrows(err)
                                                 THEN "rejected"
                                                 ELSE "resolved"]
          /\ UNCHANGED createdReleases
    /\ UNCHANGED <<pc, env, outputs, invoked, log, prs, ver, pub, runs,
                   bodyVars, rel, throttle>>

-----------------------------------------------------------------------------
(* runPublish *)

\* faulty variant of scanMulti: a package already released is not added again
RECURSIVE scanMultiDeduplicating(_, _, _, _)
scanMultiDeduplicating(lines, i, packages, released) ==
    IF i > Len(lines)
    THEN [threw |-> FALSE, scanned |-> Len(lines), releasedPackages |-> released]
    ELSE LET match == matchNewTag(lines[i])
         IN  IF ~match.matched
             THEN scanMultiDeduplicating(lines, i + 1, packages, released)
             ELSE IF ~hasPackage(packages, match.pkgName)
             THEN [threw |-> TRUE, scanned |-> i, releasedPackages |-> released]
             ELSE IF \E j \in 1..Len(released) :
                        released[j].name = match.pkgName
             THEN scanMultiDeduplicating(lines, i + 1, packages, released)
             ELSE scanMultiDeduplicating(lines, i + 1, packages,
                            Append(released,
                                   packageByName(packages, match.pkgName)))

\* faulty variant of scanMulti: a tag of an unknown package is skipped
RECURSIVE scanMultiSkippingUnknown(_, _, _, _)
scanMultiSkippingUnknown(lines, i, packages, released) ==
    IF i > Len(lines)
    THEN [threw |-> FALSE, scanned |-> Len(lines), releasedPackages |-> released]
    ELSE LET match == matchNewTag(lines[i])
         IN  IF ~match.matched \/ ~hasPackage(packages, match.pkgName)
             THEN scanMultiSkippingUnknown(lines, i + 1, packages, released)
             ELSE scanMultiSkippingUnknown(lines, i + 1, packages,
                            Append(released,
                                   packageByName(packages, match.pkgName)))

\* lines 161-175: the loop over the lines in multi-package mode, from line i
RECURSIVE scanMulti(_, _, _, _)
scanMulti(lines, i, packages, released) ==
    IF i > Len(lines)
    THEN [threw |-> FALSE, scanned |-> Len(lines), releasedPackages |-> released]
    ELSE LET match == matchNewTag(lines[i])
         IN  IF ~match.matched
             THEN scanMulti(lines, i + 1, packages, released)
             ELSE IF ~hasPackage(packages, match.pkgName)
             THEN [threw |-> TRUE, scanned |-> i, releasedPackages |-> released]
             ELSE scanMulti(lines, i + 1, packages,
                            Append(released,
                                   packageByName(packages, match.pkgName)))

\* faulty variant of firstMarker: the loop has no break
firstMarkerNoBreak(lines) ==
    LET hits == {i \in 1..Len(lines) : matchMarker(lines[i])}
    IN  IF hits = {} THEN 0 ELSE Max(hits)

\* lines 197-210: the index of the line the single-package loop breaks at,
\* 0 when it runs to the end
firstMarker(lines) ==
    LET hits == {i \in 1..Len(lines) : matchMarker(lines[i])}
    IN  IF hits = {} THEN 0 ELSE Min(hits)

multiTagName(pkg) == pkg.name \o "@" \o pkg.version
singleTagName(pkg) == "v" \o pkg.version

publishedPackage(pkg) == [name |-> pkg.name, version |-> pkg.version]

\* faulty variant of RunPublishExec: the exit code of the publish tool is
\* ignored and its output is used whatever it is
RunPublishExecIgnoringReturnCode ==
    /\ pc = "rp_exec"
    /\ \E lines \in SeqsUpTo(LinePool, MaxLines), exitCode \in {0, 1} :
          /\ pub' = [pub EXCEPT !.lines = lines,
                                !.stdout = join([k \in 1..Len(lines) |-> text(lines[k])], "\n")]
          /\ log' = Append(log, IF exitCode = 0 THEN "publish"
                                ELSE "publish failed")
          /\ pc' = "rp_pushTags"
          /\ UNCHANGED outputs
    /\ UNCHANGED <<env, invoked, prs, createdReleases, ver, tasks, runs,
                   bodyVars, rel, throttle>>

\* lines 146-150: the publish tool ends; a non-zero exit code is thrown
RunPublishExec ==
    /\ pc = "rp_exec"
    /\ \/ \E lines \in SeqsUpTo(LinePool, MaxLines) :
            /\ pub' = [pub EXCEPT !.lines = lines,
                                  !.stdout = join([k \in 1..Len(lines) |-> text(lines[k])], "\n")]
            /\ log' = Append(log, "publish")
            /\ pc' = "rp_pushTags"
            /\ UNCHANGED outputs
       \/ /\ log' = Append(log, "publish failed")
          /\ Fail("The process failed with exit code 1")
          /\ UNCHANGED pub
    /\ UNCHANGED <<env, invoked, prs, createdReleases, ver, tasks, runs,
                   bodyVars, rel, throttle>>

\* line 152
RunPublishPushTags ==
    /\ pc = "rp_pushTags"
    /\ \/ /\ log' = Append(log, "pushTags")
          /\ pc' = "rp_getPackages"
          /\ UNCHANGED outputs
       \/ /\ Fail("git push --tags failed")
          /\ UNCHANGED log
    /\ UNCHANGED <<env, invoked, prs, createdReleases, ver, pub, tasks, runs,
                   bodyVars, rel, throttle>>

\* line 154
RunPublishGetPackages ==
    /\ pc = "rp_getPackages"
    /\ \E w \in Workspaces :
          pub' = [pub EXCEPT !.tool = w.tool, !.packages = w.packages]
    /\ log' = Append(log, "getPackages")
    /\ pc' = "rp_scan"
    /\ UNCHANGED <<env, outputs, invoked, prs, createdReleases, ver, tasks,
                   runs, bodyVars, rel, throttle>>

\* lines 157-186: the multi-package branch up to the await of Promise.all
RunPublishScanMulti ==
    /\ pc = "rp_scan"
    /\ pub.tool # "root"
    /\ LET r == scanMulti(split(pub.stdout), 1, pub.packages, <<>>)
       IN  /\ pub' = [pub EXCEPT !.scanned = r.scanned,
                                 !.releasedPackages = r.releasedPackages]
           /\ IF r.threw
              THEN /\ Fail("Package not found")
                   /\ UNCHANGED tasks
              ELSE /\ UNCHANGED outputs
                   /\ IF Truthy(pub.createGithubReleases)
                      THEN /\ tasks' = [i \in 1..Len(r.releasedPackages) |->
                                          Task(r.releasedPackages[i],
                                               multiTagName(r.releasedPackages[i]))]
                           /\ pc' = "rp_await"
                      ELSE /\ pc' = "rp_return"
                           /\ UNCHANGED tasks
    /\ UNCHANGED <<env, invoked, log, prs, createdReleases, ver, runs,
                   bodyVars, rel, throttle>>

\* lines 187-211: the single-package branch up to the await of createRelease
RunPublishScanSingle ==
    /\ pc = "rp_scan"
    /\ pub.tool = "root"
    /\ IF Len(pub.packages) = 0
       THEN /\ Fail("No package found")
            /\ UNCHANGED <<pub, tasks>>
       ELSE LET lines == split(pub.stdout)
                hit == firstMarker(lines)
                pkg == pub.packages[1]
            IN  /\ UNCHANGED outputs
                /\ pub' = [pub EXCEPT
                             !.scanned = IF hit = 0 THEN Len(lines) ELSE hit,
                             !.releasedPackages = IF hit = 0 THEN <<>>
                                                  ELSE <<pkg>>]
                /\ IF hit # 0 /\ Truthy(pub.createGithubReleases)
                   THEN /\ tasks' = <<Task(pkg, singleTagName(pkg))>>
                        /\ pc' = "rp_await"
                   ELSE /\ pc' = "rp_return"
                        /\ UNCHANGED tasks
    /\ UNCHANGED <<env, invoked, log, prs, createdReleases, ver, runs,
                   bodyVars, rel, throttle>>

\* the await of line 178 (Promise.all) or of line 203: it throws as soon as
\* one createRelease has rejected and resumes once all have resolved
RunPublishAwait ==
    /\ pc = "rp_await"
    /\ IF \E i \in 1..Len(tasks) : tasks[i].st = "rejected"
       THEN Fail("createRelease failed")
       ELSE /\ \A i \in 1..Len(tasks) : tasks[i].st = "resolved"
            /\ pc' = "rp_return"
            /\ UNCHANGED outputs
    /\ UNCHANGED <<env, invoked, log, prs, createdReleases, ver, pub, tasks,
                   runs, bodyVars, rel, throttle>>

\* faulty variant of publishResult: one released package is not enough
publishResultMoreThanOne(releasedPackages) ==
    IF Len(releasedPackages) > 1
    THEN [returned |-> TRUE, published |-> TRUE,
          publishedPackages |-> [k \in 1..Len(releasedPackages) |-> publishedPackage(releasedPackages[k])]]
    ELSE [returned |-> TRUE, published |-> FALSE, publishedPackages |-> <<>>]

\* lines 213-223: the PublishResult
publishResult(releasedPackages) ==
    IF Len(releasedPackages) # 0
    THEN [returned |-> TRUE, published |-> TRUE,
          publishedPackages |-> [k \in 1..Len(releasedPackages) |-> publishedPackage(releasedPackages[k])]]
    ELSE [returned |-> TRUE, published |-> FALSE, publishedPackages |-> <<>>]

\* runPublish returns to the entry controller
RunPublishReturn ==
    /\ pc = "rp_return"
    /\ pub' = [pub EXCEPT !.result = publishResult(pub.releasedPackages)]
    /\ pc' = "main_published"
    /\ UNCHANGED <<env, outputs, invoked, log, prs, createdReleases, ver,
                   tasks, runs, bodyVars, rel, throttle>>

-----------------------------------------------------------------------------
(* Pull requests on the host *)

Repo == "acme/widgets"
Fork == "mallory/widgets"

PullRequest(number, base, head, headRepo, title, body) ==
    [number |-> number, base |-> base, head |-> head, baseRepo |-> Repo,
     headRepo |-> headRepo, title |-> title, body |-> body]

\* open pull requests that are no version proposal of a base branch
featurePr == PullRequest(1, "main", "feature", Repo, "Add feature", "")
forkPr == PullRequest(2, "main", "patch-1", Fork, "Fix typo", "")

\* faulty variant of issuesAndPullRequests: the head is matched against the
\* base branch instead of the version branch
issuesAndPullRequestsHeadIsBase(gitea, store, repo, versionBranch, branch) ==
    SelectSeq(store, LAMBDA pr : /\ pr.baseRepo = repo
                                 /\ pr.head = branch
                                 /\ pr.base = branch)

\* lines 485-512: the open pull requests the search returns.  The alternate
\* backend lists the open pull requests and filters them; the primary backend
\* answers the query repo:R+state:open+head:H+base:B+is:pull-request.
issuesAndPullRequests(gitea, store, repo, versionBranch, branch) ==
    IF gitea
    THEN SelectSeq(store, LAMBDA pr : /\ pr.baseRepo = repo
                                      /\ pr.headRepo = repo
                                      /\ pr.base = branch
                                      /\ pr.head = versionBranch)
    ELSE SelectSeq(store, LAMBDA pr : /\ pr.baseRepo = repo
                                      /\ pr.head = versionBranch
                                      /\ pr.base = branch)

nextNumber(store) ==
    IF Len(store) = 0 THEN 1 ELSE Max({store[i].number : i \in 1..Len(store)}) + 1

-----------------------------------------------------------------------------
(* runVersion *)

\* the packages a version tool run can have bumped, with their changelogs
ChangedWorkspace ==
    << Package("pkg-a", "1.3.0", FALSE,
               Changelog("", <<Section("1.3.0", 1, shortContent),
                               Section("1.2.3", 1, shortContent)>>)),
       Package("@scope/pkg-b", "0.1.0", TRUE,
               Changelog("", <<Section("0.1.0", 2, longContent)>>)),
       Package("pkg-c", "2.0.1", FALSE, Missing),
       Package("pkg-d", "0.3.0", FALSE, WithoutEntry) >>

\* getChangedPackages: some of the packages, in the order of the workspace
RECURSIVE subsequences(_)
subsequences(arr) ==
    IF Len(arr) = 0 THEN {<<>>}
    ELSE LET rest == subsequences(Tail(arr))
         IN  rest \cup {<<arr[1]>> \o r : r \in rest}
ChangedSets == {c \in subsequences(ChangedWorkspace) : Len(c) <= MaxInfos}

\* lines 372-385 for one package
changedPackageInfo(pkg) ==
    LET entry == getChangelogEntry(pkg.changelog, pkg.version)
    IN  [highestLevel |-> entry.highestLevel,
         private |-> pkg.private,
         content |-> entry.content,
         header |-> "## " \o pkg.name \o "@" \o pkg.version]

\* faulty variant of changelogReadThrows: a missing file or section is
\* tolerated as createRelease tolerates the missing file
changelogReadThrowsOnlyOtherErrors(pkg) ==
    pkg.changelog.readError \notin {"", "ENOENT"}

\* the readFile or the read of entry.highestLevel throws for this package
changelogReadThrows(pkg) ==
    \/ pkg.changelog.readError # ""
    \/ ~getChangelogEntry(pkg.changelog, pkg.version).found

\* .sort(sortTheThings): stable, highestLevel descending
RECURSIVE insertSorted(_, _)
insertSorted(sorted, x) ==
    IF Len(sorted) = 0 THEN <<x>>
    ELSE IF sorted[Len(sorted)].highestLevel >= x.highestLevel
    THEN Append(sorted, x)
    ELSE Append(insertSorted(SubSeq(sorted, 1, Len(sorted) - 1), x),
                sorted[Len(sorted)])
RECURSIVE sortTheThings(_)
sortTheThings(arr) ==
    IF Len(arr) = 0 THEN <<>>
    ELSE insertSorted(sortTheThings(SubSeq(arr, 1, Len(arr) - 1)), arr[Len(arr)])

Pending == [st |-> "pending", value |-> <<>>]
NotStarted == [st |-> "none", value |-> <<>>]

IdleVer ==
    [caller |-> "", script |-> "", prTitle |-> "", commitMessage |-> "",
     hasPublishScript |-> FALSE, prBodyMaxCharacters |-> 0,
     branch |-> "", versionBranch |-> "", preState |-> "none",
     search |-> NotStarted, infos |-> NotStarted, changedPackages |-> <<>>,
     did |-> "", target |-> 0, pullRequestNumber |-> 0]

\* the ref of the triggering event
ContextRef == "refs/heads/main"

\* ref.replace("refs/heads/", "")
branchOfRef(ref) ==
    IF Len(ref) >= 11 /\ SubSeq(ref, 1, 11) = "refs/heads/"
    THEN SubSeq(ref, 12, Len(ref))
    ELSE ref

\* lines 328-344: defaults, repo, branch, versionBranch; readChangesetState
\* is awaited
runVersionEnter(caller, script, prTitle, commitMessage, hasPublishScript) ==
    /\ ver' = [IdleVer EXCEPT
                 !.caller = caller,
                 !.script = script,
                 !.prTitle = IF prTitle = "" THEN "Version Packages" ELSE prTitle,
                 !.commitMessage = IF commitMessage = "" THEN "Version Packages"
                                   ELSE commitMessage,
                 !.hasPublishScript = hasPublishScript,
                 !.prBodyMaxCharacters = MAX_CHARACTERS_PER_MESSAGE,
                 !.branch = branchOfRef(ContextRef),
                 !.versionBranch = "changeset-release/" \o branchOfRef(ContextRef)]
    /\ pc' = "rv_readState"

suffix(preState) == IF preState # "none" THEN " (" \o preState \o ")" ELSE ""

\* line 344
RunVersionReadState ==
    /\ pc = "rv_readState"
    /\ \E preState \in PreStates : ver' = [ver EXCEPT !.preState = preState]
    /\ pc' = "rv_switch"
    /\ UNCHANGED <<env, outputs, invoked, log, prs, createdReleases, pub,
                   tasks, runs, bodyVars, rel, throttle>>

\* one awaited VCS or tool step: it completes and is logged, or it throws
Step(at, name, next) ==
    /\ pc = at
    /\ \/ /\ log' = Append(log, name)
          /\ pc' = next
          /\ UNCHANGED outputs
       \/ /\ Fail(name \o " failed")
          /\ UNCHANGED log
    /\ UNCHANGED <<env, invoked, prs, createdReleases, ver, pub, tasks, runs,
                   bodyVars, rel, throttle>>

\* line 346
RunVersionSwitch == Step("rv_switch", "switchToMaybeExistingBranch", "rv_reset")
\* line 347
RunVersionReset == Step("rv_reset", "reset", "rv_versions")
\* line 349
RunVersionSnapshot == Step("rv_versions", "getVersionsByDirectory", "rv_exec")

\* faulty variant of RunVersionExec: the exit code of the version tool is
\* ignored
RunVersionExecIgnoringReturnCode ==
    /\ pc = "rv_exec"
    /\ \/ /\ \E tool \in {"version", "version failed"} :
                log' = log \o <<tool, "search">>
          /\ ver' = [ver EXCEPT !.search = Pending]
          /\ pc' = "rv_changed"
          /\ UNCHANGED outputs
       \/ /\ ver.script = ""
          /\ Fail("Have you forgotten to install @changesets/cli?")
          /\ UNCHANGED <<log, ver>>
    /\ UNCHANGED <<env, invoked, prs, createdReleases, pub, tasks, runs,
                   bodyVars, rel, throttle>>

\* lines 351-370: the version tool ran (or could not be found, or failed);
\* after it the search is started and getChangedPackages is awaited
RunVersionExec ==
    /\ pc = "rv_exec"
    /\ \/ /\ log' = log \o <<"version", "search">>
          /\ ver' = [ver EXCEPT !.search = Pending]
          /\ pc' = "rv_changed"
          /\ UNCHANGED outputs
       \/ /\ ver.script = ""
          /\ Fail("Have you forgotten to install @changesets/cli?")
          /\ UNCHANGED <<log, ver>>
       \/ /\ log' = Append(log, "version failed")
          /\ Fail("The process failed with exit code 1")
          /\ UNCHANGED ver
    /\ UNCHANGED <<env, invoked, prs, createdReleases, pub, tasks, runs,
                   bodyVars, rel, throttle>>

\* lines 370-391: getChangedPackages resolved; the changelog reads are
\* started and checkIfClean is awaited
RunVersionChanged ==
    /\ pc = "rv_changed"
    /\ \E changed \in ChangedSets :
          ver' = [ver EXCEPT !.changedPackages = changed, !.infos = Pending]
    /\ pc' = "rv_checkIfClean"
    /\ UNCHANGED <<env, outputs, invoked, log, prs, createdReleases, pub,
                   tasks, runs, bodyVars, rel, throttle>>

\* line 391: the tree is dirty and commitAll is awaited, or it is clean and
\* the push is awaited
RunVersionCheckIfClean ==
    /\ pc = "rv_checkIfClean"
    /\ \/ pc' = "rv_commit"
       \/ pc' = "rv_push"
    /\ UNCHANGED <<env, outputs, invoked, log, prs, createdReleases, ver, pub,
                   tasks, runs, bodyVars, rel, throttle>>

\* faulty variant of RunVersionCommit: commitAll is not awaited, so the push
\* completes while the commit is still running
RunVersionCommitNotAwaited ==
    /\ pc = "rv_commit"
    /\ \/ /\ log' = log \o <<"push --force",
                             "commitAll " \o ver.commitMessage
                                 \o suffix(ver.preState)>>
          /\ pc' = "rv_awaitSearch"
          /\ UNCHANGED outputs
       \/ /\ Fail("push failed")
          /\ UNCHANGED log
    /\ UNCHANGED <<env, invoked, prs, createdReleases, ver, pub, tasks, runs,
                   bodyVars, rel, throttle>>

\* lines 392-395
RunVersionCommit ==
    Step("rv_commit", "commitAll " \o ver.commitMessage \o suffix(ver.preState),
         "rv_push")
\* faulty variant of RunVersionPush: a failure of the push is not thrown
RunVersionPushFailureIgnored ==
    /\ pc = "rv_push"
    /\ \/ log' = Append(log, "push --force")
       \/ log' = Append(log, "push --force failed")
    /\ pc' = "rv_awaitSearch"
    /\ UNCHANGED <<env, outputs, invoked, prs, createdReleases, ver, pub,
                   tasks, runs, bodyVars, rel, throttle>>

\* line 398
RunVersionPush == Step("rv_push", "push --force", "rv_awaitSearch")

\* the host answers the search started at line 364
SearchRespond ==
    /\ ver.search.st = "pending"
    /\ pc \notin {"failed", "crashed"}
    /\ \/ ver' = [ver EXCEPT !.search =
                    [st |-> "resolved",
                     value |-> issuesAndPullRequests(env.gitea, prs, Repo,
                                                     ver.versionBranch,
                                                     ver.branch)]]
       \/ ver' = [ver EXCEPT !.search = [st |-> "rejected", value |-> <<>>]]
    /\ UNCHANGED <<pc, env, outputs, invoked, log, prs, createdReleases, pub,
                   tasks, runs, bodyVars, rel, throttle>>

\* the changelog reads started at line 371 finish: Promise.all rejects if one
\* read or one entry lookup throws
ChangelogsRead ==
    /\ ver.infos.st = "pending"
    /\ pc \notin {"failed", "crashed"}
    /\ ver' = [ver EXCEPT !.infos =
                 IF \E i \in 1..Len(ver.changedPackages) :
                       changelogReadThrows(ver.changedPackages[i])
                 THEN [st |-> "rejected", value |-> <<>>]
                 ELSE [st |-> "resolved",
                       value |-> [k \in 1..Len(ver.changedPackages) |-> changedPackageInfo(ver.changedPackages[k])]]]
    /\ UNCHANGED <<pc, env, outputs, invoked, log, prs, createdReleases, pub,
                   tasks, runs, bodyVars, rel, throttle>>

\* a promise rejected while runVersion awaits something else has no handler
\* yet: the runtime may end the process there
UnhandledRejection ==
    /\ \/ /\ ver.search.st = "rejected"
          /\ pc \in {"rv_changed", "rv_checkIfClean", "rv_commit", "rv_push"}
       \/ /\ ver.infos.st = "rejected"
          /\ pc \in {"rv_checkIfClean", "rv_commit", "rv_push", "rv_awaitSearch"}
    /\ pc' = "crashed"
    /\ UNCHANGED <<env, outputs, invoked, log, prs, createdReleases, ver, pub,
                   tasks, runs, bodyVars, rel, throttle>>

\* lines 400-401
RunVersionAwaitSearch ==
    /\ pc = "rv_awaitSearch"
    /\ \/ /\ ver.search.st = "resolved"
          /\ pc' = "rv_awaitInfos"
          /\ UNCHANGED outputs
       \/ /\ ver.search.st = "rejected"
          /\ Fail("search failed")
    /\ UNCHANGED <<env, invoked, log, prs, createdReleases, ver, pub, tasks,
                   runs, bodyVars, rel, throttle>>

prBodyOf(v) ==
    getVersionPrBody([hasPublishScript |-> v.hasPublishScript,
                      preState |-> v.preState,
                      branch |-> v.branch,
                      changedPackagesInfo |-> sortTheThings(v.infos.value),
                      prBodyMaxCharacters |-> v.prBodyMaxCharacters])

finalPrTitle(v) == v.prTitle \o suffix(v.preState)

\* faulty variant of noOpenProposal: the search result is ignored
noOpenProposalAlways(items) == TRUE

\* line 415: the search found no open proposal
noOpenProposal(items) == Len(items) = 0

\* lines 403-437: the infos are awaited, the body composed and the create or
\* the update request sent
RunVersionAwaitInfos ==
    /\ pc = "rv_awaitInfos"
    /\ \/ /\ ver.infos.st = "resolved"
          /\ IF noOpenProposal(ver.search.value)
             THEN /\ log' = Append(log, "createPullRequest")
                  /\ ver' = [ver EXCEPT !.did = "create"]
                  /\ pc' = "rv_create"
             ELSE /\ log' = Append(log, "updatePullRequest")
                  /\ ver' = [ver EXCEPT !.did = "update",
                                        !.target = ver.search.value[1].number]
                  /\ pc' = "rv_update"
          /\ UNCHANGED outputs
       \/ /\ ver.infos.st = "rejected"
          /\ Fail("changelog entry could not be read")
          /\ UNCHANGED <<log, ver>>
    /\ UNCHANGED <<env, invoked, prs, createdReleases, pub, tasks, runs,
                   bodyVars, rel, throttle>>

returnTo(v) == IF v.caller = "main" THEN "main_versioned" ELSE "returned"

\* lines 417-427: the host created the pull request, or refused
RunVersionCreate ==
    /\ pc = "rv_create"
    /\ \/ /\ prs' = Append(prs, PullRequest(nextNumber(prs), ver.branch,
                                            ver.versionBranch, Repo,
                                            finalPrTitle(ver), prBodyOf(ver)))
          /\ ver' = [ver EXCEPT !.pullRequestNumber = nextNumber(prs)]
          /\ pc' = returnTo(ver)
          /\ UNCHANGED outputs
       \/ /\ Fail("createPullRequest failed")
          /\ UNCHANGED <<prs, ver>>
    /\ UNCHANGED <<env, invoked, log, createdReleases, pub, tasks, runs,
                   bodyVars, rel, throttle>>

\* lines 429-441: the host updated the pull request, or refused
RunVersionUpdate ==
    /\ pc = "rv_update"
    /\ \/ /\ prs' = [i \in 1..Len(prs) |->
                       IF prs[i].number = ver.target
                       THEN [prs[i] EXCEPT !.title = finalPrTitle(ver),
                                           !.body = prBodyOf(ver)]
                       ELSE prs[i]]
          /\ ver' = [ver EXCEPT !.pullRequestNumber = ver.target]
          /\ pc' = returnTo(ver)
          /\ UNCHANGED outputs
       \/ /\ Fail("updatePullRequest failed")
          /\ UNCHANGED <<prs, ver>>
    /\ UNCHANGED <<env, invoked, log, createdReleases, pub, tasks, runs,
                   bodyVars, rel, throttle>>

-----------------------------------------------------------------------------
(* The entry controller *)

NoOutputs ==
    [published |-> "", publishedPackages |-> "", hasChangesets |-> "",
     pullRequestNumber |-> "", failed |-> ""]

\* String(boolean)
StringOfBoolean(b) == IF b THEN "true" ELSE "false"

\* JSON.stringify of a PublishedPackage[]
stringifyPackage(p) ==
    "{\"name\":\"" \o p.name \o "\",\"version\":\"" \o p.version \o "\"}"
stringifyPackages(ps) == "[" \o join([k \in 1..Len(ps) |-> stringifyPackage(ps[k])], ",") \o "]"

\* faulty variant of hasChangesets: empty changesets do not count
hasChangesetsIgnoringEmpty(changesets) ==
    \E i \in 1..Len(changesets) : changesets[i] > 0

\* changesets.length !== 0
hasChangesets(changesets) == Len(changesets) # 0
\* faulty variant of hasNonEmptyChangesets: empty changesets count as well
hasNonEmptyChangesetsAny(changesets) == Len(changesets) # 0

\* changesets.some((changeset) => changeset.releases.length > 0); a changeset
\* is modelled by the length of its releases
hasNonEmptyChangesets(changesets) ==
    \E i \in 1..Len(changesets) : changesets[i] > 0
hasPublishScript(e) == e.publish # ""

PublishInputs == {"", "yarn release"}
VersionInputs == {"", "yarn bump"}
TitleInputs == {"", "Release"}
CreateGithubReleasesInputs == {"true", "false", "aggregate"}

\* lines 26-50 of the entry file: without a token the invocation is failed
\* and nothing else happens; else the git user and the credentials are set up
MainStart ==
    /\ pc = "main_start"
    /\ IF ~env.token
       THEN /\ outputs' = [outputs EXCEPT !.failed =
                  "Please add the GITHUB_TOKEN to the changesets action"]
            /\ pc' = "done"
       ELSE \/ /\ pc' = "main_readState"
               /\ UNCHANGED outputs
            \/ Fail("setup failed")
    /\ UNCHANGED <<env, invoked, log, prs, createdReleases, ver, pub, tasks,
                   runs, bodyVars, rel, throttle>>

\* lines 52-137 of the entry file up to the call of an orchestrator
MainDispatch ==
    /\ pc = "main_readState"
    /\ LET defaults == [outputs EXCEPT
                          !.published = "false",
                          !.publishedPackages = "[]",
                          !.hasChangesets =
                              StringOfBoolean(hasChangesets(env.changesets))]
       IN  /\ outputs' = defaults
           /\ IF ~hasChangesets(env.changesets) /\ ~hasPublishScript(env)
              THEN /\ pc' = "done"
                   /\ UNCHANGED <<invoked, ver, pub, runs>>
              ELSE IF ~hasChangesets(env.changesets) /\ hasPublishScript(env)
              THEN /\ \E input \in CreateGithubReleasesInputs :
                         pub' = [IdlePub EXCEPT !.createGithubReleases =
                                    extractCreateGithubReleases(input)]
                   /\ invoked' = Append(invoked, "runPublish")
                   /\ pc' = "rp_exec"
                   /\ UNCHANGED <<ver, runs>>
              ELSE IF hasChangesets(env.changesets)
                      /\ ~hasNonEmptyChangesets(env.changesets)
              THEN /\ pc' = "done"
                   /\ UNCHANGED <<invoked, ver, pub, runs>>
              ELSE /\ \E script \in VersionInputs, title \in TitleInputs :
                         runVersionEnter("main", script, title, "",
                                         hasPublishScript(env))
                   /\ invoked' = Append(invoked, "runVersion")
                   /\ runs' = runs + 1
                   /\ UNCHANGED pub
    /\ UNCHANGED <<env, log, prs, createdReleases, tasks, bodyVars, rel, throttle>>

\* lines 113-120 of the entry file
MainPublished ==
    /\ pc = "main_published"
    /\ outputs' = IF pub.result.published
                  THEN [outputs EXCEPT
                          !.published = "true",
                          !.publishedPackages =
                              stringifyPackages(pub.result.publishedPackages)]
                  ELSE outputs
    /\ pc' = "done"
    /\ UNCHANGED <<env, invoked, log, prs, createdReleases, ver, pub, tasks,
                   runs, bodyVars, rel, throttle>>

\* lines 134-136 of the entry file
MainVersioned ==
    /\ pc = "main_versioned"
    /\ outputs' = [outputs EXCEPT
                     !.pullRequestNumber = ToString(ver.pullRequestNumber)]
    /\ pc' = "done"
    /\ UNCHANGED <<env, invoked, log, prs, createdReleases, ver, pub, tasks,
                   runs, bodyVars, rel, throttle>>

-----------------------------------------------------------------------------
(* One invocation of the action *)

IdleBodyIn ==
    [hasPublishScript |-> FALSE, branch |-> "main", changedPackagesInfo |-> <<>>,
     prBodyMaxCharacters |-> MAX_CHARACTERS_PER_MESSAGE, preState |-> "none"]

BodyIdle ==
    /\ bodyPc = "idle"
    /\ bodyIn = IdleBodyIn
    /\ bodyOut = ""

\* the version proposal an earlier invocation left open
releasePr ==
    PullRequest(3, "main", "changeset-release/main", Repo, "Version Packages",
                "# Releases")

Environments ==
    [token : BOOLEAN, gitea : BOOLEAN,
     changesets : SeqsUpTo({0, 1}, MaxChangesets),
     publish : PublishInputs]

Init ==
    /\ pc = "main_start"
    /\ env \in Environments
    /\ outputs = NoOutputs
    /\ invoked = <<>>
    /\ log = <<>>
    /\ prs \in {<<>>, <<featurePr, forkPr>>, <<featurePr, forkPr, releasePr>>}
    /\ createdReleases = <<>>
    /\ ver = IdleVer
    /\ pub = IdlePub
    /\ tasks = <<>>
    /\ runs = 0
    /\ BodyIdle
    /\ rel = IdleRel
    /\ throttle = IdleThrottle

NextVersion ==
    \/ RunVersionReadState
    \/ RunVersionSwitch
    \/ RunVersionReset
    \/ RunVersionSnapshot
    \/ RunVersionExec
    \/ RunVersionChanged
    \/ RunVersionCheckIfClean
    \/ RunVersionCommit
    \/ RunVersionPush
    \/ SearchRespond
    \/ ChangelogsRead
    \/ UnhandledRejection
    \/ RunVersionAwaitSearch
    \/ RunVersionAwaitInfos
    \/ RunVersionCreate
    \/ RunVersionUpdate

NextPublish ==
    \/ RunPublishExec
    \/ RunPublishPushTags
    \/ RunPublishGetPackages
    \/ RunPublishScanMulti
    \/ RunPublishScanSingle
    \/ RunPublishAwait
    \/ RunPublishReturn
    \/ \E i \in 1..(MaxLines + 1) : CreateReleaseRead(i)
    \/ \E i \in 1..(MaxLines + 1) : CreateReleaseRespond(i)

Next ==
    \/ MainStart
    \/ MainDispatch
    \/ MainPublished
    \/ MainVersioned
    \/ NextVersion
    \/ NextPublish

Spec == Init /\ [][Next]_vars

-----------------------------------------------------------------------------
(* Consecutive runVersion runs against one repository *)

InitRuns ==
    /\ pc = "idle"
    /\ env \in [token : {TRUE}, gitea : BOOLEAN, changesets : {<<1>>},
                publish : PublishInputs]
    /\ outputs = NoOutputs
    /\ invoked = <<>>
    /\ log = <<>>
    /\ prs \in {<<>>, <<featurePr, forkPr>>}
    /\ createdReleases = <<>>
    /\ ver = IdleVer
    /\ pub = IdlePub
    /\ tasks = <<>>
    /\ runs = 0
    /\ BodyIdle
    /\ rel = IdleRel
    /\ throttle = IdleThrottle

\* the next run starts once the run before it has ended
StartRun ==
    /\ pc \in {"idle", "returned", "failed", "crashed"}
    /\ runs < MaxRuns
    /\ \E script \in VersionInputs, title \in TitleInputs :
          runVersionEnter("direct", script, title, "", hasPublishScript(env))
    /\ runs' = runs + 1
    /\ outputs' = NoOutputs
    /\ log' = <<>>
    /\ UNCHANGED <<env, invoked, prs, createdReleases, pub, tasks, bodyVars, rel, throttle>>

NextRuns ==
    \/ StartRun
    \/ NextVersion

SpecRuns == InitRuns /\ [][NextRuns]_vars

-----------------------------------------------------------------------------
(* The composer applied to every input *)

InitBody ==
    /\ pc = "idle"
    /\ env = [token |-> TRUE, gitea |-> FALSE, changesets |-> <<>>,
              publish |-> ""]
    /\ outputs = NoOutputs
    /\ invoked = <<>>
    /\ log = <<>>
    /\ prs = <<>>
    /\ createdReleases = <<>>
    /\ ver = IdleVer
    /\ pub = IdlePub
    /\ tasks = <<>>
    /\ runs = 0
    /\ bodyPc = "call"
    /\ bodyIn \in GetMessageOptions
    /\ bodyOut = ""
    /\ rel = IdleRel
    /\ throttle = IdleThrottle

CallGetVersionPrBody ==
    /\ bodyPc = "call"
    /\ bodyOut' = getVersionPrBody(bodyIn)
    /\ bodyPc' = "returned"
    /\ UNCHANGED <<pc, env, outputs, invoked, log, prs, createdReleases, ver,
                   pub, tasks, runs, bodyIn, rel, throttle>>

NextBody == CallGetVersionPrBody

SpecBody == InitBody /\ [][NextBody]_vars

-----------------------------------------------------------------------------
(* A call of the primary backend's client under the throttle handlers *)

\* lines 31-40: onRateLimit asks for a retry iff it returns true.  retryCount
\* is the number of retries the throttling plugin has already made for the
\* request: 0 when the first answer arrives, one more after each retry.
onRateLimit(retryCount) == retryCount <= 2

\* lines 41-55
onSecondaryRateLimit(retryCount) == retryCount <= 2

\* the operations of the client that run.ts calls
ClientOperations ==
    {"search.issuesAndPullRequests", "pulls.create", "pulls.update",
     "repos.createRelease"}

RateLimitAnswers == {"rate-limit", "secondary-limit"}

InitThrottle ==
    /\ pc = "idle"
    /\ env = [token |-> TRUE, gitea |-> FALSE, changesets |-> <<>>,
              publish |-> ""]
    /\ outputs = NoOutputs
    /\ invoked = <<>>
    /\ log = <<>>
    /\ prs = <<>>
    /\ createdReleases = <<>>
    /\ ver = IdleVer
    /\ pub = IdlePub
    /\ tasks = <<>>
    /\ runs = 0
    /\ BodyIdle
    /\ rel = IdleRel
    /\ throttle = IdleThrottle

\* an operation of the client is called: its request is sent
ThrottleCall ==
    /\ throttle.st = "idle"
    /\ \E operation \in ClientOperations :
          /\ throttle' = [throttle EXCEPT !.st = "sent", !.sent = 1]
          /\ log' = Append(log, operation)
    /\ UNCHANGED <<pc, env, outputs, invoked, prs, createdReleases, ver, pub,
                   tasks, runs, bodyVars, rel>>

\* the host answers the request: with success, with an error that is no
\* rate limit, or with a rate-limit answer, for which the plugin calls the
\* handler of its kind and retries iff the handler returns true
ThrottleAnswer ==
    /\ throttle.st = "sent"
    /\ \/ throttle' = [throttle EXCEPT !.st = "resolved"]
       \/ throttle' = [throttle EXCEPT !.st = "rejected"]
       \/ \E kind \in RateLimitAnswers :
             LET wantRetry == IF kind = "rate-limit"
                              THEN onRateLimit(throttle.retryCount)
                              ELSE onSecondaryRateLimit(throttle.retryCount)
             IN  throttle' = [throttle EXCEPT
                                !.answers = Append(@, kind),
                                !.warnings = @ + 1,
                                !.st = IF wantRetry THEN "waiting"
                                       ELSE "rejected",
                                !.retryCount = IF wantRetry THEN @ + 1 ELSE @]
    /\ UNCHANGED <<pc, env, outputs, invoked, log, prs, createdReleases, ver,
                   pub, tasks, runs, bodyVars, rel>>

\* retryAfter seconds later the plugin sends the request again
ThrottleRetry ==
    /\ throttle.st = "waiting"
    /\ throttle' = [throttle EXCEPT !.st = "sent", !.sent = @ + 1]
    /\ UNCHANGED <<pc, env, outputs, invoked, log, prs, createdReleases, ver,
                   pub, tasks, runs, bodyVars, rel>>

NextThrottle ==
    \/ ThrottleCall
    \/ ThrottleAnswer
    \/ ThrottleRetry

SpecThrottle == InitThrottle /\ [][NextThrottle]_vars

-----------------------------------------------------------------------------
(* runRelease, run repeatedly against one repository *)

pkgInternal(changelog) == Package("pkg-internal", "3.0.0", TRUE, changelog)

\* what getPackages(cwd) finds when runRelease is called
ReleaseWorkspaces ==
    { [tool |-> "pnpm",
       packages |-> <<pkgA(WithEntry("1.2.3")), pkgInternal(WithEntry("3.0.0")),
                      pkgB(WithEntry("0.0.1-beta.0"))>>],
      [tool |-> "yarn", packages |-> <<pkgA(Missing), pkgB(WithoutEntry)>>],
      [tool |-> "root", packages |-> <<pkgRoot(WithEntry("1.0.0"))>>],
      [tool |-> "root", packages |-> <<pkgInternal(WithEntry("3.0.0"))>>],
      [tool |-> "root", packages |-> <<>>] }

\* a release the host already holds when the first run starts
existingRelease(tagName) ==
    [name |-> tagName, tag_name |-> tagName, body |-> "", prerelease |-> FALSE]

\* lines 657-660: the package with its tagName
withTagName(pkg) ==
    [name |-> pkg.name, version |-> pkg.version, private |-> pkg.private,
     changelog |-> pkg.changelog, tagName |-> pkg.name \o "@" \o pkg.version]

\* lines 655-660
releasablePackages(packages) ==
    LET public == SelectSeq(packages, LAMBDA pkg : ~pkg.private)
    IN  [k \in 1..Len(public) |-> withTagName(public[k])]

\* faulty variant of notListed: the releases are looked up by package name
notListedByName(releasable, listing) ==
    SelectSeq(releasable,
              LAMBDA pkg : \A j \in 1..Len(listing) : listing[j] # pkg.name)

\* lines 673-684: the releasable packages for whose tagName the listing has
\* no release, listing being the tag_name of each listed release
notListed(releasable, listing) ==
    SelectSeq(releasable,
              LAMBDA pkg : \A j \in 1..Len(listing) : listing[j] # pkg.tagName)

\* the createRelease calls of earlier runs have all ended
NoTaskRunning ==
    \A i \in 1..Len(tasks) : tasks[i].st \in {"resolved", "rejected"}

InitRelease ==
    /\ pc = "idle"
    /\ env \in [token : {TRUE}, gitea : BOOLEAN, changesets : {<<>>},
                publish : {""}]
    /\ outputs = NoOutputs
    /\ invoked = <<>>
    /\ log = <<>>
    /\ prs = <<>>
    /\ createdReleases \in {<<>>,
                            <<existingRelease("pkg-a@1.2.3")>>,
                            <<existingRelease("my-app@1.0.0"),
                              existingRelease("pkg-a@1.2.2")>>}
    /\ ver = IdleVer
    /\ pub = IdlePub
    /\ tasks = <<>>
    /\ runs = 0
    /\ BodyIdle
    /\ rel = IdleRel
    /\ throttle = IdleThrottle

\* lines 630-641: runRelease is called; with a script the release tool is
\* run first
StartRelease ==
    /\ pc \in {"idle", "returned", "failed"}
    /\ NoTaskRunning
    /\ runs < MaxReleaseRuns
    /\ \E script \in PublishInputs, createGithubReleases \in BOOLEAN :
          /\ rel' = [IdleRel EXCEPT
                       !.script = script,
                       !.createGithubReleases = createGithubReleases]
          /\ pc' = IF script # "" THEN "rr_exec" ELSE "rr_pushTags"
    /\ runs' = runs + 1
    /\ outputs' = NoOutputs
    /\ log' = <<>>
    /\ tasks' = <<>>
    /\ UNCHANGED <<env, invoked, prs, createdReleases, ver, pub, bodyVars,
                   throttle>>

\* lines 638-641: the release tool ends; a non-zero exit code is thrown
RunReleaseExec ==
    /\ pc = "rr_exec"
    /\ \/ /\ log' = Append(log, "release")
          /\ pc' = "rr_pushTags"
          /\ UNCHANGED outputs
       \/ /\ log' = Append(log, "release failed")
          /\ Fail("The process failed with exit code 1")
    /\ UNCHANGED <<env, invoked, prs, createdReleases, ver, pub, tasks, runs,
                   bodyVars, rel, throttle>>

\* line 643
RunReleasePushTags ==
    /\ pc = "rr_pushTags"
    /\ \/ /\ log' = Append(log, "pushTags")
          /\ pc' = "rr_getPackages"
          /\ UNCHANGED outputs
       \/ /\ Fail("git push --tags failed")
          /\ UNCHANGED log
    /\ UNCHANGED <<env, invoked, prs, createdReleases, ver, pub, tasks, runs,
                   bodyVars, rel, throttle>>

\* lines 687-697 for the released list as it stands: with release creation
\* enabled the createRelease calls are launched and awaited
launchReleases(r, released) ==
    /\ rel' = [r EXCEPT !.releasedPackages = released]
    /\ IF r.createGithubReleases
       THEN /\ tasks' = [k \in 1..Len(released) |->
                           Task(released[k], released[k].tagName)]
            /\ pc' = "rr_await"
       ELSE /\ pc' = "rr_return"
            /\ UNCHANGED tasks

\* faulty variant of RunReleaseGetPackages: on the primary backend every
\* releasable package is taken as released
RunReleaseGetPackagesPrimaryReleasesAll ==
    /\ pc = "rr_getPackages"
    /\ \E w \in ReleaseWorkspaces :
          LET r == [rel EXCEPT !.tool = w.tool, !.packages = w.packages,
                               !.releasablePackages =
                                   releasablePackages(w.packages)]
          IN  IF w.tool = "root" /\ Len(w.packages) = 0
              THEN /\ Fail("No package found")
                   /\ rel' = [rel EXCEPT !.tool = w.tool]
                   /\ UNCHANGED <<log, tasks>>
              ELSE /\ UNCHANGED outputs
                   /\ IF Len(r.releasablePackages) = 0
                      THEN /\ rel' = r
                           /\ pc' = "rr_return"
                           /\ log' = Append(log, "getPackages")
                           /\ UNCHANGED tasks
                      ELSE IF env.gitea
                      THEN /\ rel' = r
                           /\ pc' = "rr_list"
                           /\ log' = log \o <<"getPackages", "listReleases">>
                           /\ UNCHANGED tasks
                      ELSE /\ launchReleases(r, r.releasablePackages)
                           /\ log' = Append(log, "getPackages")
    /\ UNCHANGED <<env, invoked, prs, createdReleases, ver, pub, runs,
                   bodyVars, throttle>>

\* lines 645-671 and, on the primary backend, 687-697: the packages are
\* read and the releasable ones kept; on the alternate backend the release
\* listing is requested
RunReleaseGetPackages ==
    /\ pc = "rr_getPackages"
    /\ \E w \in ReleaseWorkspaces :
          LET r == [rel EXCEPT !.tool = w.tool, !.packages = w.packages,
                               !.releasablePackages =
                                   releasablePackages(w.packages)]
          IN  IF w.tool = "root" /\ Len(w.packages) = 0
              THEN /\ Fail("No package found")
                   /\ rel' = [rel EXCEPT !.tool = w.tool]
                   /\ UNCHANGED <<log, tasks>>
              ELSE /\ UNCHANGED outputs
                   /\ IF Len(r.releasablePackages) = 0
                      THEN /\ rel' = r
                           /\ pc' = "rr_return"
                           /\ log' = Append(log, "getPackages")
                           /\ UNCHANGED tasks
                      ELSE IF env.gitea
                      THEN /\ rel' = r
                           /\ pc' = "rr_list"
                           /\ log' = log \o <<"getPackages", "listReleases">>
                           /\ UNCHANGED tasks
                      ELSE /\ launchReleases(r, r.releasedPackages)
                           /\ log' = Append(log, "getPackages")
    /\ UNCHANGED <<env, invoked, prs, createdReleases, ver, pub, runs,
                   bodyVars, throttle>>

\* lines 665-697: the alternate backend answers the listing with the
\* releases it holds, or with a non-2xx status, which is thrown
RunReleaseListed ==
    /\ pc = "rr_list"
    /\ \/ LET listing == [k \in 1..Len(createdReleases) |->
                             createdReleases[k].tag_name]
              r == [rel EXCEPT !.listed = TRUE, !.listing = listing]
          IN  /\ launchReleases(r, notListed(r.releasablePackages, listing))
              /\ UNCHANGED outputs
       \/ /\ Fail("500 Internal Server Error")
          /\ UNCHANGED <<rel, tasks>>
    /\ UNCHANGED <<env, invoked, log, prs, createdReleases, ver, pub, runs,
                   bodyVars, throttle>>

\* the await of line 688 (Promise.all): it throws as soon as one
\* createRelease has rejected and resumes once all have resolved
RunReleaseAwait ==
    /\ pc = "rr_await"
    /\ IF \E i \in 1..Len(tasks) : tasks[i].st = "rejected"
       THEN Fail("createRelease failed")
       ELSE /\ \A i \in 1..Len(tasks) : tasks[i].st = "resolved"
            /\ pc' = "rr_return"
            /\ UNCHANGED outputs
    /\ UNCHANGED <<env, invoked, log, prs, createdReleases, ver, pub, tasks,
                   runs, bodyVars, rel, throttle>>

\* lines 699-709: the ReleasedResult
releasedResult(releasedPackages) ==
    IF Len(releasedPackages) # 0
    THEN [returned |-> TRUE, released |-> TRUE,
          releasedPackages |->
              [k \in 1..Len(releasedPackages) |->
                  publishedPackage(releasedPackages[k])]]
    ELSE [returned |-> TRUE, released |-> FALSE, releasedPackages |-> <<>>]

RunReleaseReturn ==
    /\ pc = "rr_return"
    /\ rel' = [rel EXCEPT !.result = releasedResult(rel.releasedPackages)]
    /\ pc' = "returned"
    /\ UNCHANGED <<env, outputs, invoked, log, prs, createdReleases, ver, pub,
                   tasks, runs, bodyVars, throttle>>

NextRelease ==
    \/ StartRelease
    \/ RunReleaseExec
    \/ RunReleasePushTags
    \/ RunReleaseGetPackages
    \/ RunReleaseListed
    \/ RunReleaseAwait
    \/ RunReleaseReturn
    \/ \E i \in 1..(MaxLines + 1) : CreateReleaseRead(i)
    \/ \E i \in 1..(MaxLines + 1) : CreateReleaseRespond(i)

SpecRelease == InitRelease /\ [][NextRelease]_vars

-----------------------------------------------------------------------------
(* Properties *)

\* the open version proposals of base branch main
VersionProposals ==
    {i \in 1..Len(prs) : /\ prs[i].base = "main"
                         /\ prs[i].head = "changeset-release/main"
                         /\ prs[i].baseRepo = Repo
                         /\ prs[i].headRepo = Repo}

\* C1: after any number of consecutive runVersion runs against the same base
\* branch, starting without an open proposal, there is never more than one
\* open proposal for (main, changeset-release/main), and there is exactly
\* one whenever a run has returned: the first such run creates it and the
\* later ones update it.
C1_OneOpenProposal ==
    /\ Cardinality(VersionProposals) <= 1
    /\ pc = "returned" =>
          /\ Cardinality(VersionProposals) = 1
          /\ \A i \in VersionProposals : prs[i].number = ver.pullRequestNumber

C1_SecondRunUpdated ==
    /\ pc = "returned"
    /\ runs >= 2
    /\ ver.did = "update"
    /\ Cardinality(VersionProposals) = 1

Count(seq, x) == Cardinality({i \in 1..Len(seq) : seq[i] = x})

\* C2: a runVersion run sends at most one of the create and the update
\* request, and only once the search has answered; it sends the create
\* request iff the search returned no item and otherwise the update request
\* for the first item, creating no proposal; a run that returns has sent
\* exactly one and returns the number of the proposal created or updated.
C2_CreateXorUpdate ==
    LET creates == Count(log, "createPullRequest")
        updates == Count(log, "updatePullRequest")
    IN  /\ creates + updates <= 1
        /\ creates + updates = 1 => ver.search.st = "resolved"
        /\ creates = 1 => Len(ver.search.value) = 0
        /\ updates = 1 =>
              /\ Len(ver.search.value) > 0
              /\ ver.target = ver.search.value[1].number
              /\ Cardinality(VersionProposals) = Len(ver.search.value)
        /\ pc = "main_versioned" =>
              /\ creates + updates = 1
              /\ \E i \in VersionProposals :
                    /\ prs[i].number = ver.pullRequestNumber
                    /\ creates = 1 => i = Len(prs)
              /\ updates = 1 =>
                    ver.pullRequestNumber = ver.search.value[1].number

C2_ReturnedAfterUpdate ==
    /\ pc = "main_versioned"
    /\ Count(log, "updatePullRequest") = 1
    /\ Count(log, "createPullRequest") = 0
    /\ ver.pullRequestNumber = 3

\* the dispatch of the entry controller has happened
Dispatched == outputs.hasChangesets # ""

\* C3 as stated: every invocation that has a token runs exactly one
\* orchestrator.
C3_ExactlyOneOrchestrator ==
    (env.token /\ Dispatched) => Len(invoked) = 1

\* C3 as amended: an invocation runs at most one orchestrator, and none
\* without a token; with a token it runs exactly one when there is no
\* pending changeset and a publish script is configured or when some
\* changeset is non-empty, and none when there is neither a changeset nor a
\* publish script or when every pending changeset is empty.
C3_AtMostOneOrchestrator ==
    /\ Len(invoked) <= 1
    /\ ~env.token => Len(invoked) = 0
    /\ (env.token /\ Dispatched) =>
          (Len(invoked) = 1 <=>
              \/ Len(env.changesets) = 0 /\ env.publish # ""
              \/ \E i \in 1..Len(env.changesets) : env.changesets[i] > 0)

C3_OnlyEmptyChangesetsRunNone ==
    /\ env.token
    /\ pc = "done"
    /\ Len(env.changesets) > 0
    /\ env.publish # ""
    /\ Len(invoked) = 0

\* C4: the message getVersionPrBody returns is at most maxCharacters long
\* whenever the fixed text alone (header, pre-release block, heading and the
\* notice that all release information is omitted) is.
C4_BodyWithinLimit ==
    (bodyPc = "returned"
        /\ Len(fullMessageStep2(bodyIn)) <= bodyIn.prBodyMaxCharacters)
    => Len(bodyOut) <= bodyIn.prBodyMaxCharacters

C4_FellBackToFixedText ==
    /\ bodyPc = "returned"
    /\ Len(fullMessageStep0(bodyIn)) > bodyIn.prBodyMaxCharacters
    /\ Len(fullMessageStep1(bodyIn)) > bodyIn.prBodyMaxCharacters
    /\ Len(bodyOut) <= bodyIn.prBodyMaxCharacters
    /\ Len(bodyIn.changedPackagesInfo) > 0

RECURSIVE totalContent(_)
totalContent(infos) ==
    IF Len(infos) = 0 THEN 0
    ELSE Len(infos[1].content) + totalContent(Tail(infos))

\* the first degradation step was taken
StepOneBuilt ==
    /\ bodyPc = "returned"
    /\ Len(fullMessageStep0(bodyIn)) > bodyIn.prBodyMaxCharacters

\* C5 as stated: the message of degradation step 1 is never longer than the
\* undegraded message built from the same input.
C5_StepOneNeverLonger ==
    StepOneBuilt => Len(fullMessageStep1(bodyIn)) <= Len(fullMessageStep0(bodyIn))

\* C5 as amended: the message of degradation step 1 is the undegraded
\* message shortened by the contents and lengthened by the 121 characters of
\* the notice and its separator, so it is not longer than the undegraded
\* message exactly when the contents total at least 121 characters.
C5_StepOneLength ==
    StepOneBuilt =>
        /\ Len(fullMessageStep1(bodyIn)) =
              Len(fullMessageStep0(bodyIn))
                 - totalContent(bodyIn.changedPackagesInfo) + 121
        /\ Len(fullMessageStep1(bodyIn)) <= Len(fullMessageStep0(bodyIn))
              <=> totalContent(bodyIn.changedPackagesInfo) >= 121

C5_StepOneReturnedShorter ==
    /\ StepOneBuilt
    /\ bodyOut = fullMessageStep1(bodyIn)
    /\ Len(bodyOut) < Len(fullMessageStep0(bodyIn))
    /\ totalContent(bodyIn.changedPackagesInfo) > 121

\* runPublish is past its scan of the output and the scan did not throw
ScanCompleted == pc \in {"rp_await", "rp_return", "main_published", "done"}
MultiPackage == pub.tool \notin {"", "root"}
SinglePackage == pub.tool = "root"

\* the packages the lines of the publish tool announce, in line order
RECURSIVE announced(_)
announced(lines) ==
    IF Len(lines) = 0 THEN <<>>
    ELSE IF lines[1].announces = "" THEN announced(Tail(lines))
    ELSE <<lines[1].announces>> \o announced(Tail(lines))

\* C6: in multi-package mode the released list is, in line order, one entry
\* per line that announces a tag, the workspace package of the announced
\* name, repeated when announced twice; other lines contribute nothing.
C6_ReleasedInLineOrder ==
    (MultiPackage /\ ScanCompleted) =>
        /\ Len(pub.releasedPackages) = Len(announced(pub.lines))
        /\ \A i \in 1..Len(pub.releasedPackages) :
              /\ pub.releasedPackages[i].name = announced(pub.lines)[i]
              /\ \E j \in 1..Len(pub.packages) :
                    pub.packages[j] = pub.releasedPackages[i]

C6_AnnouncedTwice ==
    /\ MultiPackage
    /\ pc = "rp_return"
    /\ Len(pub.releasedPackages) = 2
    /\ pub.releasedPackages[1] = pub.releasedPackages[2]

\* some line announces a package the workspace does not have
UnknownAnnounced ==
    \E i \in 1..Len(pub.lines) :
        /\ pub.lines[i].announces # ""
        /\ \A j \in 1..Len(pub.packages) :
              pub.packages[j].name # pub.lines[i].announces

\* C7: in multi-package mode, when a line announces a package that is not in
\* the workspace, the run fails and creates no release for any package, the
\* packages announced on earlier lines included.
C7_UnknownPackageIsFatal ==
    (MultiPackage /\ UnknownAnnounced /\ pc # "rp_scan") =>
        /\ pc = "failed"
        /\ tasks = <<>>
        /\ createdReleases = <<>>
        /\ Count(log, "createRelease") = 0

C7_FailedAfterKnownPackage ==
    /\ MultiPackage
    /\ UnknownAnnounced
    /\ pc = "failed"
    /\ Truthy(pub.createGithubReleases)
    /\ Len(pub.releasedPackages) = 1

\* the lines of the publish tool that contain the marker
MarkerLines ==
    {i \in 1..Len(pub.lines) :
        \E p \in 1..Len(pub.lines[i].text) :
            /\ p + 7 <= Len(pub.lines[i].text)
            /\ SubSeq(pub.lines[i].text, p, p + 7) = "New tag:"}

\* C8: in single-package mode the package is released at most once and
\* createRelease is called at most once, with tag v<version>, both at the
\* first line that contains the marker; the lines after it are not scanned;
\* without such a line nothing is released.
C8_SingleFirstMatchWins ==
    (SinglePackage /\ pc # "rp_scan" /\ Len(pub.packages) > 0) =>
        /\ Len(pub.releasedPackages) <= 1
        /\ Len(tasks) <= 1
        /\ Count(log, "createRelease") <= 1
        /\ Len(createdReleases) <= 1
        /\ \A i \in 1..Len(tasks) :
              /\ tasks[i].tagName = "v" \o pub.packages[1].version
              /\ tasks[i].pkg = pub.packages[1]
        /\ \A i \in 1..Len(createdReleases) :
              createdReleases[i].tag_name = "v" \o pub.packages[1].version
        /\ IF MarkerLines = {}
           THEN /\ pub.releasedPackages = <<>>
                /\ tasks = <<>>
                /\ pub.scanned = Len(split(pub.stdout))
                /\ pub.scanned >= Len(pub.lines)
           ELSE /\ pub.releasedPackages = <<pub.packages[1]>>
                /\ Len(tasks) = 1 <=> Truthy(pub.createGithubReleases)
                /\ \A i \in MarkerLines : pub.scanned <= i
                /\ pub.scanned \in MarkerLines

C8_TwoMarkersOneRelease ==
    /\ SinglePackage
    /\ pc = "rp_return"
    /\ Cardinality(MarkerLines) = 2
    /\ Len(pub.releasedPackages) = 1
    /\ Len(createdReleases) = 1
    /\ pub.scanned = 1

\* C9: when runPublish returns, published is true iff the released list is
\* not empty, and publishedPackages then holds the name and version of each
\* released entry in order; with an empty released list published is false
\* and there is no list.
C9_PublishResult ==
    pub.result.returned =>
        /\ pub.result.published <=> Len(pub.releasedPackages) > 0
        /\ Len(pub.result.publishedPackages) = Len(pub.releasedPackages)
        /\ \A i \in 1..Len(pub.releasedPackages) :
              /\ pub.result.publishedPackages[i].name =
                    pub.releasedPackages[i].name
              /\ pub.result.publishedPackages[i].version =
                    pub.releasedPackages[i].version

C9_TwoPublished ==
    /\ pub.result.returned
    /\ pub.result.published
    /\ Len(pub.result.publishedPackages) = 2
    /\ pub.result.publishedPackages[1] # pub.result.publishedPackages[2]

\* C10: createRelease for a package whose changelog file does not exist
\* completes without error and sends no create-release request.
C10_MissingChangelogIsSkipped ==
    \A i \in 1..Len(tasks) :
        tasks[i].pkg.changelog.readError = "ENOENT" =>
            /\ tasks[i].st \in {"readFile", "resolved"}
            /\ ~tasks[i].requested
            /\ \A j \in 1..Len(createdReleases) :
                  createdReleases[j].tag_name # tasks[i].tagName

C10_SkippedAndDone ==
    /\ pc = "done"
    /\ outputs.published = "true"
    /\ \E i \in 1..Len(tasks) :
          /\ tasks[i].pkg.changelog.readError = "ENOENT"
          /\ tasks[i].st = "resolved"

\* the changelog of the task's package was read and has no section for the
\* package's version
ReadWithoutEntry(task) ==
    /\ task.st # "readFile"
    /\ task.pkg.changelog.readError = ""
    /\ \A k \in 1..Len(task.pkg.changelog.sections) :
          task.pkg.changelog.sections[k].version # task.pkg.version

\* C11: createRelease for a package whose changelog file exists but has no
\* section for the package's version rejects, and runPublish fails: it never
\* returns a result after such a createRelease.
C11_NoEntryIsFatal ==
    \A i \in 1..Len(tasks) :
        ReadWithoutEntry(tasks[i]) =>
            /\ tasks[i].st = "rejected"
            /\ pc \in {"rp_await", "failed"}

\* C12: a createRelease that completes without error either met no failure
\* or met the missing changelog file; every other failure, the alternate
\* backend's non-2xx answer included, rejects it.
C12_OnlyMissingFileSwallowed ==
    \A i \in 1..Len(tasks) :
        (tasks[i].st = "resolved" /\ tasks[i].err # NoError) =>
            /\ tasks[i].err.hasCode
            /\ tasks[i].err.code = "ENOENT"

\* C13: when the publish tool exits non-zero, runPublish has failed and has
\* done nothing else: no tag push, no package enumeration, no scan of the
\* output for tags, no createRelease call and no release.
C13_PublishFailureAborts ==
    Count(log, "publish failed") > 0 =>
        /\ pc = "failed"
        /\ outputs.failed # ""
        /\ Count(log, "pushTags") = 0
        /\ Count(log, "getPackages") = 0
        /\ pub.tool = ""
        /\ pub.scanned = 0
        /\ pub.releasedPackages = <<>>
        /\ tasks = <<>>
        /\ Count(log, "createRelease") = 0
        /\ createdReleases = <<>>
        /\ ~pub.result.returned

C13_PublishFailed ==
    /\ invoked = <<"runPublish">>
    /\ log = <<"publish failed">>
    /\ pc = "failed"
    /\ outputs.published = "false"

\* the VCS and tool steps of runVersion that the log records, in log order,
\* the commit under one name whatever its message
RECURSIVE vcsSteps(_)
vcsSteps(entries) ==
    IF Len(entries) = 0 THEN <<>>
    ELSE LET e == entries[1]
         IN  IF e \in {"switchToMaybeExistingBranch", "reset", "version",
                       "push --force"}
             THEN <<e>> \o vcsSteps(Tail(entries))
             ELSE IF Len(e) >= 9 /\ SubSeq(e, 1, 9) = "commitAll"
             THEN <<"commitAll">> \o vcsSteps(Tail(entries))
             ELSE vcsSteps(Tail(entries))

IsPrefix(s, t) == Len(s) <= Len(t) /\ s = SubSeq(t, 1, Len(s))

\* C14: the steps a runVersion run has completed are, in order, a prefix of
\* switch, reset, version tool, commit, force-push, or of the same without
\* the commit: no step is completed before the one before it, none twice,
\* and the run is at one step at a time.
C14_StepsInOrder ==
    /\ \/ IsPrefix(vcsSteps(log),
                   <<"switchToMaybeExistingBranch", "reset", "version",
                     "commitAll", "push --force">>)
       \/ IsPrefix(vcsSteps(log),
                   <<"switchToMaybeExistingBranch", "reset", "version",
                     "push --force">>)
    /\ pc = "rv_reset" => vcsSteps(log) = <<"switchToMaybeExistingBranch">>
    /\ pc = "rv_exec" => vcsSteps(log) = <<"switchToMaybeExistingBranch", "reset">>
    /\ pc = "rv_commit" =>
          vcsSteps(log) = <<"switchToMaybeExistingBranch", "reset", "version">>
    /\ pc = "rv_push" => Len(vcsSteps(log)) \in {3, 4}
    /\ pc \in {"rv_awaitSearch", "rv_awaitInfos", "rv_create", "rv_update",
               "main_versioned"} =>
          /\ Len(vcsSteps(log)) \in {4, 5}
          /\ vcsSteps(log)[Len(vcsSteps(log))] = "push --force"

C14_CommittedAndPushed ==
    /\ pc = "main_versioned"
    /\ vcsSteps(log) = <<"switchToMaybeExistingBranch", "reset", "version",
                         "commitAll", "push --force">>

\* C15: a call of the primary backend's client is retried at most 2 times
\* on rate-limit answers: at the third consecutive rate-limit answer (of
\* either kind) the call has been retried exactly 2 times, is not retried
\* again and fails.
C15_TwoRetriesThenFailure ==
    /\ throttle.retryCount <= 2
    /\ throttle.sent <= 3
    /\ Len(throttle.answers) >= 3 =>
          /\ throttle.st = "rejected"
          /\ throttle.retryCount = 2
          /\ throttle.sent = 3

\* C16: when the version tool exits non-zero, runVersion has failed: the
\* search was not issued, the changelogs were not read, nothing was
\* committed or pushed and no proposal was created or updated.
C16_VersionFailureAborts ==
    Count(log, "version failed") > 0 =>
        /\ pc = "failed"
        /\ outputs.failed # ""
        /\ Count(log, "search") = 0
        /\ ver.search.st = "none"
        /\ ver.infos.st = "none"
        /\ vcsSteps(log) = <<"switchToMaybeExistingBranch", "reset">>
        /\ Count(log, "createPullRequest") = 0
        /\ Count(log, "updatePullRequest") = 0
        /\ ver.did = ""
        /\ ver.pullRequestNumber = 0
        /\ outputs.pullRequestNumber = ""

C16_VersionFailed ==
    /\ invoked = <<"runVersion">>
    /\ pc = "failed"
    /\ log = <<"switchToMaybeExistingBranch", "reset",
               "getVersionsByDirectory", "version failed">>
    /\ Len(prs) = 3

\* the changelog file of the package is missing, or it has no section for
\* the package's version
MissingChangelog(pkg) ==
    \/ pkg.changelog.readError = "ENOENT"
    \/ /\ pkg.changelog.readError = ""
       /\ \A k \in 1..Len(pkg.changelog.sections) :
             pkg.changelog.sections[k].version # pkg.version

\* the changelog reads of the run were started and one of the changed
\* packages has no changelog file or no section for its version
ReadsMissingChangelog ==
    /\ ver.infos.st # "none"
    /\ \E i \in 1..Len(ver.changedPackages) :
          MissingChangelog(ver.changedPackages[i])

\* C17: a runVersion run with a changed package whose changelog file, or
\* whose section for the new version, is missing neither creates nor updates
\* a proposal and does not return: it ends failed, or ended by the runtime on
\* the rejected read.
C17_MissingChangelogIsFatal ==
    ReadsMissingChangelog =>
        /\ ver.infos.st \in {"pending", "rejected"}
        /\ Count(log, "createPullRequest") = 0
        /\ Count(log, "updatePullRequest") = 0
        /\ ver.did = ""
        /\ ver.pullRequestNumber = 0
        /\ pc \notin {"rv_create", "rv_update", "main_versioned", "returned",
                      "done"}
        /\ (~ENABLED Next) => pc \in {"failed", "crashed"}

C17_FailedAtAwait ==
    /\ ReadsMissingChangelog
    /\ pc = "failed"
    /\ outputs.failed = "changelog entry could not be read"
    /\ ver.search.st = "resolved"
    /\ Count(log, "push --force") = 1

\* the creation of the task's release failed: createRelease met an error
\* other than the changelog file not being found
CreationFailed(task) ==
    /\ task.err # NoError
    /\ ~(task.err.hasCode /\ task.err.code = "ENOENT")

\* the creation of the task's release succeeded
CreationSucceeded(task) ==
    /\ task.st = "resolved"
    /\ task.requested
    /\ task.err = NoError

\* C18: when runPublish has launched the createRelease calls of several
\* released packages and the creation of one of them fails, the batch fails:
\* runPublish does not go on to return a result and the invocation reports
\* no published list; the releases whose creation succeeded stay on the
\* host.
C18_BatchFailsOnAnyFailure ==
    (MultiPackage /\ Len(tasks) >= 2) =>
        /\ Len(tasks) = Len(pub.releasedPackages)
        /\ (\E i \in 1..Len(tasks) : CreationFailed(tasks[i])) =>
              /\ pc \in {"rp_await", "failed"}
              /\ ~pub.result.returned
              /\ outputs.published = "false"
        /\ \A i \in 1..Len(tasks) :
              CreationSucceeded(tasks[i]) =>
                  \E j \in 1..Len(createdReleases) :
                      createdReleases[j].tag_name = tasks[i].tagName

\* the tag '<name>@<version>' of a workspace package
TagOf(pkg) == pkg.name \o "@" \o pkg.version

\* the tag is the tag_name of a release of the listing
Listed(tag) == \E j \in 1..Len(rel.listing) : rel.listing[j] = tag

\* the alternate backend has answered the release listing of this run
ListingAnswered == env.gitea /\ rel.listed

\* every non-private package of the workspace has its release in the listing
AllReleasesExist ==
    \A k \in 1..Len(rel.packages) :
        ~rel.packages[k].private => Listed(TagOf(rel.packages[k]))

\* C19: on the alternate backend createRelease is called for no package
\* whose tag is the tag_name of a listed release and for no private package,
\* and, with release creation enabled, it is called once for every
\* non-private package whose tag is not listed (and for none with release
\* creation disabled or before the listing is answered); a run that finds
\* every release listed calls createRelease for none.
C19_ListedReleasesAreSkipped ==
    env.gitea =>
        /\ ~rel.listed => tasks = <<>>
        /\ \A i \in 1..Len(tasks) :
              /\ ~Listed(tasks[i].tagName)
              /\ ~tasks[i].pkg.private
              /\ tasks[i].tagName = TagOf(tasks[i].pkg)
        /\ (rel.listed /\ rel.createGithubReleases) =>
              \A k \in 1..Len(rel.packages) :
                  (~rel.packages[k].private
                      /\ ~Listed(TagOf(rel.packages[k]))) =>
                     Cardinality({i \in 1..Len(tasks) :
                        tasks[i].tagName = TagOf(rel.packages[k])}) = 1
        /\ ~rel.createGithubReleases => tasks = <<>>
        /\ (rel.listed /\ AllReleasesExist) =>
              /\ tasks = <<>>
              /\ Count(log, "createRelease") = 0

C19_SecondRunCreatesNone ==
    /\ ListingAnswered
    /\ runs = 2
    /\ pc = "returned"
    /\ rel.createGithubReleases
    /\ Len(rel.releasablePackages) = 2
    /\ AllReleasesExist
    /\ createdReleases = <<existingRelease("pkg-a@1.2.3"),
                           [name |-> "@scope/pkg-b@0.0.1-beta.0",
                            tag_name |-> "@scope/pkg-b@0.0.1-beta.0",
                            body |-> shortContent,
                            prerelease |-> TRUE]>>
    /\ tasks = <<>>

\* every pending changeset has an empty release list, and there is one
AllChangesetsEmpty ==
    /\ Len(env.changesets) > 0
    /\ \A i \in 1..Len(env.changesets) : env.changesets[i] = 0

\* C20: the entry controller calls runPublish only with no pending changeset
\* and a publish script, runVersion only with a changeset whose release list
\* is not empty, never both in one invocation, and neither when every
\* pending changeset is empty, with or without a publish script.
C20_DispatchConditions ==
    /\ \A k \in 1..Len(invoked) :
          /\ invoked[k] = "runPublish" =>
                /\ Len(env.changesets) = 0
                /\ env.publish # ""
          /\ invoked[k] = "runVersion" =>
                \E i \in 1..Len(env.changesets) : env.changesets[i] > 0
    /\ ~(Count(invoked, "runPublish") > 0 /\ Count(invoked, "runVersion") > 0)
    /\ AllChangesetsEmpty =>
          /\ invoked = <<>>
          /\ pc \in {"main_start", "main_readState", "done", "failed"}
          /\ log = <<>>

C20_AllEmptyWithPublishScript ==
    /\ AllChangesetsEmpty
    /\ Len(env.changesets) = 2
    /\ env.publish = "yarn release"
    /\ pc = "done"
    /\ outputs.hasChangesets = "true"
    /\ outputs.published = "false"
    /\ outputs.failed = ""
    /\ invoked = <<>>

\* the position of the first entry x of the log, 0 when there is none
FirstIndex(entries, x) ==
    IF Count(entries, x) = 0 THEN 0
    ELSE Min({i \in 1..Len(entries) : entries[i] = x})

\* the commit or the push of the run has failed
CommitOrPushFailed ==
    \/ outputs.failed = "push --force failed"
    \/ /\ Len(outputs.failed) >= 9
       /\ SubSeq(outputs.failed, 1, 9) = "commitAll"

\* C21: a runVersion run sends the create or the update request only after
\* its force-push has completed, and a run whose commit or push fails sends
\* neither and leaves the proposals as they were.
C21_ProposalAfterPush ==
    /\ \A request \in {"createPullRequest", "updatePullRequest"} :
          Count(log, request) > 0 =>
              /\ Count(log, "push --force") = 1
              /\ FirstIndex(log, "push --force") < FirstIndex(log, request)
    /\ pc \in {"rv_create", "rv_update", "main_versioned"} =>
          Count(log, "push --force") = 1
    /\ CommitOrPushFailed =>
          /\ pc = "failed"
          /\ Count(log, "push --force") = 0
          /\ Count(log, "createPullRequest") = 0
          /\ Count(log, "updatePullRequest") = 0
          /\ ver.did = ""
          /\ prs \in {<<>>, <<featurePr, forkPr>>,
                      <<featurePr, forkPr, releasePr>>}

C21_PushFailedAfterCommit ==
    /\ outputs.failed = "push --force failed"
    /\ pc = "failed"
    /\ Len(vcsSteps(log)) = 4
    /\ ver.search.st = "resolved"
    /\ ver.search.value = <<>>
    /\ prs = <<>>

\* the releases the host holds before the first runRelease run
InitialReleases ==
    {<<>>,
     <<existingRelease("pkg-a@1.2.3")>>,
     <<existingRelease("my-app@1.0.0"), existingRelease("pkg-a@1.2.2")>>}

\* name and version of the non-private packages of the workspace whose tag
\* is not in the listing, in workspace order
RECURSIVE unlistedPublic(_)
unlistedPublic(packages) ==
    IF Len(packages) = 0 THEN <<>>
    ELSE IF ~packages[1].private /\ ~Listed(TagOf(packages[1]))
    THEN <<[name |-> packages[1].name, version |-> packages[1].version]>>
            \o unlistedPublic(Tail(packages))
    ELSE unlistedPublic(Tail(packages))

\* C22: on the primary backend runRelease never fills the released list: it
\* calls createRelease for no package, creates no release and, when it
\* returns, returns released:false, whatever the workspace; on the alternate
\* backend the list it returns is the non-private packages whose tag is not
\* listed, with release creation enabled or not, and released is true
\* exactly when that list is not empty.
C22_ReleasedOnlyOnAlternateBackend ==
    /\ ~env.gitea =>
          /\ rel.releasedPackages = <<>>
          /\ ~rel.listed
          /\ tasks = <<>>
          /\ Count(log, "createRelease") = 0
          /\ createdReleases \in InitialReleases
          /\ rel.result.returned =>
                /\ ~rel.result.released
                /\ rel.result.releasedPackages = <<>>
    /\ (env.gitea /\ rel.result.returned) =>
          /\ rel.listed \/ \A k \in 1..Len(rel.packages) :
                               rel.packages[k].private
          /\ rel.result.releasedPackages = unlistedPublic(rel.packages)
          /\ rel.result.released <=> unlistedPublic(rel.packages) # <<>>

C22_PrimaryReturnsNotReleased ==
    /\ ~env.gitea
    /\ pc = "returned"
    /\ rel.createGithubReleases
    /\ Len(rel.releasablePackages) = 2
    /\ rel.result.returned
    /\ ~rel.result.released
    /\ createdReleases = <<>>

====
